---- MODULE Spec2Model ----
(***************************************************************************)
(* Model of the replay engine of llm-workflow-visualizer                    *)
(* (frontend/src/utils/replayUtils.ts): createReplaySession ("branch")      *)
(* running against an injected executor, and compareSessions ("compare").   *)
(*                                                                          *)
(* A step is a record; its data payload is a heap object, so a step holds   *)
(* the address of its payload (the object spread {...step} copies the       *)
(* address, not the payload).  An async function runs atomically between    *)
(* two awaits, so one action covers the code from one await to the next.    *)
(***************************************************************************)
EXTENDS Integers, Sequences, FiniteSets, TLC

\* ---------------------------------------------------------------- bounds
MaxSteps == 3       \* longest original session; stepIndex is in 0..MaxSteps-1
MaxGroup == 2       \* groups are 1..MaxGroup
MaxCalls == 2       \* createReplaySession calls made on one original session
MaxCompareSteps == 2 \* longest session handed to compareSessions
MaxTextLen == 3     \* longest text handed to DiffViewer, in characters

\* ---------------------------------------------------------------- values
StepIndices == 0 .. (MaxSteps - 1)
Groups == 1 .. MaxGroup
Types == {"prompt", "command"}
ClockReadings == {1, 2}          \* milliseconds new Date() can read during a call
Absent == -1                     \* an optional field that is undefined
RecordedAt == 0                  \* timestamp of every recorded step
OriginalPayload == 0             \* payload content of every recorded step
ReplayedPayload == 1             \* payload content an executor generates
NoStep == [stepIndex |-> Absent] \* Array.prototype.find returning undefined
NoSession == [sessionId |-> <<>>]
NoError == [message |-> "none"]
NoSettlement == [kind |-> "none"]
NoComparison == [kind |-> "none"]
NoCompareData == [kind |-> "null"]   \* compareData holding null
NoArguments == [kind |-> "none"]     \* no call made yet
Arguments == {"original", "replay"}
\* what a session's steps field can hold at run time
StepsKinds == {"array", "undefined", "object"}
TypeError == [message |-> "TypeError"]
OriginalSessionId == <<"sess">>
OriginalTitle == <<"title">>

VARIABLES
    originalSession,   \* argument: the session to branch from
    fromStepIndex,     \* argument: the cut step index
    heap,              \* payload objects, by address
    clock,             \* what new Date() reads
    pc,                \* "idle", "awaiting", "returned" or "threw"
    targetGroup,       \* local of createReplaySession
    unchangedSteps,    \* local
    stepsToReplayInSameGroup, \* local
    loopPos,           \* position of the for-of iterator in the tail
    replayedSteps,     \* local
    pending,           \* executor calls whose promise is not settled
    settled,           \* settlement of the awaited promise, not yet consumed
    calls,             \* history: every step passed to the executor, in order
    results,           \* history: every step the executor resolved to, in order
    rejectedAt,        \* history: stepIndex of the call that rejected
    returned,          \* value the promise of createReplaySession resolved to
    thrown,            \* error the promise of createReplaySession rejected with
    produced,          \* sessions earlier createReplaySession calls returned
    stepsKind,         \* what the steps field of each argument session holds
    replaySession,     \* second argument of compareSessions
    comparison,        \* value compareSessions returned
    diffProps,         \* DiffViewer: the oldValue and newValue it is given
    diffStage,         \* DiffViewer: "idle" or "rendered"
    changes,           \* DiffViewer: what Diff.diffLines returned
    diffLines,         \* DiffViewer: the rows of the left and right pane
    diffStats,         \* DiffViewer: the additions and deletions shown
    sessionsDir,       \* server: the sessions directory and its files
    request,           \* server: path of the GET request received
    response,          \* server: what was sent back
    apiAvailable,      \* App: whether fetch reaches the API server
    stored,            \* App: steps the server has recorded, by session
    allSessions,       \* App: state allSessions
    currentSession,    \* App: state currentSession
    selectedStep,      \* App: state selectedStep
    view,              \* App: state view
    compareData,       \* App: state compareData
    isLiveMode,        \* App: state isLiveMode
    polls,             \* App: poll requests whose response is outstanding
    selects,           \* App: handleSessionSelect calls awaiting their fetch
    replays,           \* App: handleReplayFromHere calls awaiting the branch
    compared           \* App: history, arguments of the last handleCompareSession

replayVars == <<originalSession, fromStepIndex, heap, clock, pc, targetGroup,
                unchangedSteps, stepsToReplayInSameGroup, loopPos, replayedSteps,
                pending, settled, calls, results, rejectedAt, returned,
                thrown, produced, stepsKind, replaySession, comparison>>

\* the state of the other components
diffVars == <<diffProps, diffStage, changes, diffLines, diffStats>>
serverVars == <<sessionsDir, request, response>>
appVars == <<apiAvailable, stored, allSessions, currentSession, selectedStep,
             view, compareData, isLiveMode, polls, selects, replays,
             compared>>
otherVars == <<diffVars, serverVars, appVars>>

vars == <<replayVars, otherVars>>

NoResponse == [status |-> 0]

\* no DiffViewer is mounted
DiffIdle ==
    /\ diffProps = [oldValue |-> <<>>, newValue |-> <<>>]
    /\ diffStage = "idle"
    /\ changes = <<>>
    /\ diffLines = [leftLines |-> <<>>, rightLines |-> <<>>]
    /\ diffStats = [additions |-> 0, deletions |-> 0]

\* the server has received no request
ServerIdle ==
    /\ sessionsDir = [exists |-> FALSE, modified |-> <<>>]
    /\ request = <<>>
    /\ response = NoResponse

\* the other components have not been used
\* the App component is not mounted
AppIdle ==
    /\ apiAvailable = FALSE
    /\ stored = <<>>
    /\ allSessions = <<>>
    /\ currentSession = NoSession
    /\ selectedStep = Absent
    /\ view = "sessions"
    /\ compareData = NoCompareData
    /\ isLiveMode = FALSE
    /\ polls = {}
    /\ selects = {}
    /\ replays = {}
    /\ compared = NoArguments

OthersIdle ==
    /\ DiffIdle
    /\ ServerIdle
    /\ AppIdle

\* ---------------------------------------------------------------- helpers
Range(s) == {s[i] : i \in 1 .. Len(s)}

\* mutant: a lookup that falls back to the first step when nothing matches
FindStepOrFirst(steps, stepIndex) ==
    LET Matches(step) == step.stepIndex = stepIndex
        matching == SelectSeq(steps, Matches)
    IN  IF matching # <<>> THEN Head(matching)
        ELSE IF steps # <<>> THEN Head(steps) ELSE NoStep

\* Array.prototype.find(s => s.stepIndex === stepIndex): first match or undefined
FindStep(steps, stepIndex) ==
    LET Matches(step) == step.stepIndex = stepIndex
        matching == SelectSeq(steps, Matches)
    IN  IF matching = <<>> THEN NoStep ELSE Head(matching)

\* one insertion of Array.prototype.sort((a, b) => a.stepIndex - b.stepIndex);
\* the sort is stable, so x goes after the elements that compare equal
RECURSIVE InsertByStepIndex(_, _)
InsertByStepIndex(x, sorted) ==
    IF sorted = <<>> THEN <<x>>
    ELSE IF x.stepIndex < Head(sorted).stepIndex THEN <<x>> \o sorted
    ELSE <<Head(sorted)>> \o InsertByStepIndex(x, Tail(sorted))

\* mutant: the tail left in stored order
StoredOrder(s) == s

RECURSIVE SortByStepIndex(_)
SortByStepIndex(s) ==
    IF s = <<>> THEN <<>>
    ELSE InsertByStepIndex(s[Len(s)], SortByStepIndex(SubSeq(s, 1, Len(s) - 1)))

\* ------------------------------------------------- createReplaySession
\* mutant: a copy tagged as a replay of itself
CopyStepAsReplay(step) == [step EXCEPT !.replayOf = step.stepIndex]

\* { ...step }: a new step object with the same fields, the data address included
CopyStep(step) == step

\* mutant: every step copied, later groups included
UnchangedStepsOfAllGroups(steps, group) ==
    [i \in 1 .. Len(steps) |-> CopyStep(steps[i])]

UnchangedSteps(steps, group) ==
    LET Keep(step) == step.group <= group
        kept == SelectSeq(steps, Keep)   \* Array.prototype.filter
    IN  [i \in 1 .. Len(kept) |-> CopyStep(kept[i])]

StepsToReplay(steps, group, stepIndex) ==
    LET Keep(step) == step.group = group /\ step.stepIndex > stepIndex
    IN  SortByStepIndex(SelectSeq(steps, Keep))

\* mutant: the spread written last, so the fields of the result win
TagReplayedResultWins(replayedStep, originalStep, now) ==
    [replayedStep EXCEPT
        !.replayOf = IF @ = Absent THEN originalStep.stepIndex ELSE @]

\* { ...replayedStep, replayOf: originalStep.stepIndex, timestamp: new Date() }
TagReplayed(replayedStep, originalStep, now) ==
    [replayedStep EXCEPT !.replayOf = originalStep.stepIndex, !.timestamp = now]

generateReplaySessionId(originalSessionId, now) ==
    originalSessionId \o <<"replay", now>>

ReplaySession(original, stepIndex, unchanged, replayed, now) ==
    [sessionId |-> generateReplaySessionId(original.sessionId, now),
     title |-> <<"Replay of">> \o original.title,
     createdAt |-> now,
     steps |-> unchanged \o replayed,
     replayOf |-> original.sessionId,
     replayFromStepIndex |-> stepIndex,
     isReplaySession |-> TRUE]

\* mutant: every remaining tail step handed over at once
AllRemainingCalls(tail, pos) == SubSeq(tail, pos, Len(tail))

\* the steps the for-of loop hands to the executor before it awaits again
NextCalls(tail, pos) == IF pos <= Len(tail) THEN <<tail[pos]>> ELSE <<>>

\* ---------------------------------------------------------------- inputs
\* a recorded session: the i-th step owning the i-th payload object.
\* createReplaySession never reads a step's type, so the steps of one
\* session are given the same one
RecordedSteps(index, group, type) ==
    [i \in DOMAIN index |-> [stepIndex |-> index[i], group |-> group[i],
                             type |-> type, timestamp |-> RecordedAt,
                             replayOf |-> Absent, data |-> i]]

\* stepIndex values of a recorded session of n steps: unique, any stored order
RecordedIndices(n) ==
    {f \in [1 .. n -> StepIndices] : \A i, j \in 1 .. n : i # j => f[i] # f[j]}

\* what an executor can resolve to for a step: the step object itself, a
\* same-shaped step with a new payload object, or a step with a new payload
\* object that breaks the contract in one field
ExecutorResults(step, fresh) ==
    {step,
     [step EXCEPT !.data = fresh],
     [step EXCEPT !.data = fresh, !.type = CHOOSE t \in Types : t # step.type],
     [step EXCEPT !.data = fresh, !.group = step.group + 1],
     [step EXCEPT !.data = fresh, !.stepIndex = step.stepIndex + 1],
     [step EXCEPT !.data = fresh, !.replayOf = step.stepIndex + 1,
                  !.timestamp = RecordedAt]}

Init ==
    /\ \E n \in 0 .. MaxSteps :
       \E index \in RecordedIndices(n), group \in [1 .. n -> Groups],
          type \in Types :
          /\ originalSession = [sessionId |-> OriginalSessionId,
                                title |-> OriginalTitle,
                                createdAt |-> RecordedAt,
                                steps |-> RecordedSteps(index, group, type)]
          /\ heap = [i \in 1 .. n |-> OriginalPayload]
    /\ fromStepIndex \in StepIndices
    /\ clock = 1
    /\ pc = "idle"
    /\ targetGroup = Absent
    /\ unchangedSteps = <<>>
    /\ stepsToReplayInSameGroup = <<>>
    /\ loopPos = 1
    /\ replayedSteps = <<>>
    /\ pending = <<>>
    /\ settled = NoSettlement
    /\ calls = <<>>
    /\ results = <<>>
    /\ rejectedAt = Absent
    /\ returned = NoSession
    /\ thrown = NoError
    /\ produced = <<>>
    /\ stepsKind = [a \in Arguments |-> "array"]
    /\ replaySession = NoSession
    /\ comparison = NoComparison
    /\ OthersIdle

\* mutant: whatever the steps field holds is read as a list
ReadAsArray(kind) == TRUE

\* only an array has find, filter and map; calling them on anything else
\* throws a TypeError
IsArray(kind) == kind = "array"

\* ---------------------------------------------------------------- actions
\* mutant: the engine waits once more after the last tail step
LoopFromWaits(tail, pos, unchanged, replayed, now) ==
    /\ pending' = pending \o NextCalls(tail, pos)
    /\ calls' = calls \o NextCalls(tail, pos)
    /\ loopPos' = pos
    /\ pc' = "awaiting"
    /\ returned' = returned

\* lines 40-79 from the top of a loop iteration: either the next executor call
\* and its await, or the end of the loop and the return
LoopFrom(tail, pos, unchanged, replayed, now) ==
    IF NextCalls(tail, pos) # <<>>
    THEN /\ pending' = pending \o NextCalls(tail, pos)
         /\ calls' = calls \o NextCalls(tail, pos)
         /\ loopPos' = pos
         /\ pc' = "awaiting"
         /\ returned' = returned
    ELSE /\ pending' = pending
         /\ calls' = calls
         /\ loopPos' = pos
         /\ pc' = "returned"
         /\ returned' = ReplaySession(originalSession, fromStepIndex,
                                      unchanged, replayed, now)

\* createReplaySession is called: lines 15-47 up to the first await, or to
\* the throw of line 20, or (empty tail) to the return of line 79
Call ==
    /\ UNCHANGED otherVars
    /\ UNCHANGED <<produced, stepsKind, replaySession, comparison>>
    /\ pc = "idle"
    /\ LET fromStep == FindStep(originalSession.steps, fromStepIndex)
       IN IF ~IsArray(stepsKind["original"])
          THEN /\ pc' = "threw"
               /\ thrown' = TypeError
               /\ UNCHANGED <<targetGroup, unchangedSteps,
                              stepsToReplayInSameGroup, loopPos, pending,
                              calls, returned>>
          ELSE IF fromStep = NoStep
          THEN /\ pc' = "threw"
               /\ thrown' = [message |-> "not found", step |-> fromStepIndex]
               /\ UNCHANGED <<targetGroup, unchangedSteps,
                              stepsToReplayInSameGroup, loopPos, pending,
                              calls, returned>>
          ELSE /\ targetGroup' = fromStep.group
               /\ unchangedSteps' =
                      UnchangedSteps(originalSession.steps, fromStep.group)
               /\ stepsToReplayInSameGroup' =
                      StepsToReplay(originalSession.steps, fromStep.group,
                                    fromStepIndex)
               /\ LoopFrom(stepsToReplayInSameGroup', 1, unchangedSteps',
                           <<>>, clock)
               /\ thrown' = thrown
    /\ UNCHANGED <<originalSession, fromStepIndex, heap, clock, replayedSteps,
                   settled, results, rejectedAt>>

\* the executor resolves the oldest pending call (time may have passed)
ExecutorResolves ==
    /\ UNCHANGED otherVars
    /\ UNCHANGED <<produced, stepsKind, replaySession, comparison>>
    /\ pending # <<>>
    /\ settled = NoSettlement
    /\ \E value \in ExecutorResults(Head(pending), Len(heap) + 1) :
          /\ heap' = IF value.data = Len(heap) + 1
                     THEN Append(heap, ReplayedPayload) ELSE heap
          /\ settled' = [kind |-> "resolved", value |-> value]
          /\ results' = Append(results, value)
    /\ clock' \in {t \in ClockReadings : t >= clock}
    /\ pending' = Tail(pending)
    /\ UNCHANGED <<originalSession, fromStepIndex, pc, targetGroup,
                   unchangedSteps, stepsToReplayInSameGroup, loopPos,
                   replayedSteps, calls, rejectedAt, returned, thrown>>

\* the executor rejects the oldest pending call
ExecutorRejects ==
    /\ UNCHANGED otherVars
    /\ UNCHANGED <<produced, stepsKind, replaySession, comparison>>
    /\ pending # <<>>
    /\ settled = NoSettlement
    /\ clock' \in {t \in ClockReadings : t >= clock}
    /\ settled' = [kind |-> "rejected"]
    /\ rejectedAt' = Head(pending).stepIndex
    /\ pending' = Tail(pending)
    /\ UNCHANGED <<originalSession, fromStepIndex, heap, pc, targetGroup,
                   unchangedSteps, stepsToReplayInSameGroup, loopPos,
                   replayedSteps, calls, results, returned, thrown>>

\* the await of line 47 returns: lines 48-53 and the next iteration
ResumeResolved ==
    /\ UNCHANGED otherVars
    /\ UNCHANGED <<produced, stepsKind, replaySession, comparison>>
    /\ pc = "awaiting"
    /\ settled.kind = "resolved"
    /\ replayedSteps' =
           Append(replayedSteps,
                  TagReplayed(settled.value,
                              stepsToReplayInSameGroup[loopPos], clock))
    /\ LoopFrom(stepsToReplayInSameGroup, loopPos + 1, unchangedSteps,
                replayedSteps', clock)
    /\ settled' = NoSettlement
    /\ UNCHANGED <<originalSession, fromStepIndex, heap, clock, targetGroup,
                   unchangedSteps, stepsToReplayInSameGroup, results,
                   rejectedAt, thrown>>

\* mutant: a rejection rolls the replayed steps back
ResumeRejectedRollsBack ==
    /\ UNCHANGED otherVars
    /\ UNCHANGED <<produced, stepsKind, replaySession, comparison>>
    /\ pc = "awaiting"
    /\ settled.kind = "rejected"
    /\ pc' = "returned"
    /\ returned' = ReplaySession(originalSession, fromStepIndex,
                                 unchangedSteps, <<>>, clock)
    /\ settled' = NoSettlement
    /\ UNCHANGED <<originalSession, fromStepIndex, heap, clock, targetGroup,
                   unchangedSteps, stepsToReplayInSameGroup, loopPos,
                   replayedSteps, pending, calls, results, rejectedAt,
                   thrown>>

\* the await of line 47 throws: the catch of lines 54-58 breaks out of the
\* loop, and lines 64-79 build and return the session
ResumeRejected ==
    /\ UNCHANGED otherVars
    /\ UNCHANGED <<produced, stepsKind, replaySession, comparison>>
    /\ pc = "awaiting"
    /\ settled.kind = "rejected"
    /\ pc' = "returned"
    /\ returned' = ReplaySession(originalSession, fromStepIndex,
                                 unchangedSteps, replayedSteps, clock)
    /\ settled' = NoSettlement
    /\ UNCHANGED <<originalSession, fromStepIndex, heap, clock, targetGroup,
                   unchangedSteps, stepsToReplayInSameGroup, loopPos,
                   replayedSteps, pending, calls, results, rejectedAt,
                   thrown>>

Next ==
    \/ Call
    \/ ExecutorResolves
    \/ ExecutorRejects
    \/ ResumeResolved
    \/ ResumeRejected

Spec == Init /\ [][Next]_vars

\* the sessions of Init that are stored in the order they were recorded
InitFair ==
    /\ Init
    /\ \A i \in 1 .. Len(originalSession.steps) - 1 :
          originalSession.steps[i].stepIndex
              < originalSession.steps[i + 1].stepIndex

\* every executor call settles (the premise about the executor), and the
\* event loop runs the continuation of an await whose promise has settled
SpecFair ==
    /\ InitFair
    /\ [][Next]_vars
    /\ WF_vars(ExecutorResolves \/ ExecutorRejects)
    /\ WF_vars(ResumeResolved)
    /\ WF_vars(ResumeRejected)

\* -------------------------------------------------------- compareSessions
\* a difference description; the interpolated values follow the fixed text
PromptChanged == <<"Prompt input changed">>
ResponseChanged == <<"Response output changed">>
CommandChanged == <<"Command changed">>
StdoutChanged == <<"Standard output changed">>
StderrChanged == <<"Standard error changed">>
PathChanged == <<"File path changed">>
ContentChanged == <<"File content changed">>
StepRemoved == <<"Step was removed in replay">>
StepAdded == <<"Step was added in replay">>
\* mutant: the two types are interpolated the other way round
TypeChangedReversed(from, to) == <<"Type changed from", to, "to", from>>
TypeChanged(from, to) == <<"Type changed from", from, "to", to>>
ExitCodeChanged(from, to) == <<"Exit code changed from", from, "to", to>>
ActionChanged(from, to) == <<"Action changed from", from, "to", to>>

\* mutant: the description is pushed whether or not the field changed
PushAlways(changed, description) == <<description>>

\* if (a !== b) differences.push(description)
PushIf(changed, description) == IF changed THEN <<description>> ELSE <<>>

\* lines 505-561; a step's data is the address of its payload in heap
compareSteps(originalStep, replayStep) ==
    IF originalStep.type # replayStep.type
    THEN <<TypeChanged(originalStep.type, replayStep.type)>>
    ELSE LET o == heap[originalStep.data]
             r == heap[replayStep.data]
         IN CASE originalStep.type = "prompt" ->
                   PushIf(o.prompt # r.prompt, PromptChanged)
                   \o PushIf(o.response # r.response, ResponseChanged)
              [] originalStep.type = "command" ->
                   PushIf(o.command # r.command, CommandChanged)
                   \o PushIf(o.stdout # r.stdout, StdoutChanged)
                   \o PushIf(o.stderr # r.stderr, StderrChanged)
                   \o PushIf(o.exitCode # r.exitCode,
                             ExitCodeChanged(o.exitCode, r.exitCode))
              [] originalStep.type = "file_edit" ->
                   PushIf(o.path # r.path, PathChanged)
                   \o PushIf(o.action # r.action,
                             ActionChanged(o.action, r.action))
                   \o PushIf(o.content # r.content, ContentChanged)
              [] OTHER -> <<>>

\* steps.map(s => s.stepIndex)
StepIndexList(steps) == [i \in 1 .. Len(steps) |-> steps[i].stepIndex]

\* new Set(values) read back with Array.from: first occurrences, in order
RECURSIVE ArrayFromSet(_)
ArrayFromSet(values) ==
    IF values = <<>> THEN <<>>
    ELSE LET before == ArrayFromSet(SubSeq(values, 1, Len(values) - 1))
             last == values[Len(values)]
         IN IF last \in Range(before) THEN before ELSE Append(before, last)

RECURSIVE InsertAscending(_, _)
InsertAscending(sorted, value) ==
    IF sorted = <<>> THEN <<value>>
    ELSE IF value < Head(sorted) THEN <<value>> \o sorted
    ELSE <<Head(sorted)>> \o InsertAscending(Tail(sorted), value)

\* mutant: the indices are visited in the order the Set holds them
InsertionOrder(values) == values

\* .sort((a, b) => a - b)
RECURSIVE SortAscending(_)
SortAscending(values) ==
    IF values = <<>> THEN <<>>
    ELSE InsertAscending(SortAscending(SubSeq(values, 1, Len(values) - 1)),
                         values[Len(values)])

\* mutant: a step without a counterpart is always reported as removed
OneSidedAlwaysRemoved(originalStep, replayStep) ==
    [status |-> "removed", differences |-> <<StepRemoved>>]

\* lines 468-476: at most one of the two steps was found
OneSided(originalStep, replayStep) ==
    IF originalStep # NoStep /\ replayStep = NoStep
    THEN [status |-> "removed", differences |-> <<StepRemoved>>]
    ELSE IF originalStep = NoStep /\ replayStep # NoStep
    THEN [status |-> "added", differences |-> <<StepAdded>>]
    ELSE [status |-> "identical", differences |-> <<>>]

\* lines 458-484: the body of the loop for one stepIndex
StepComparisonAt(original, replay, stepIndex) ==
    LET originalStep == FindStep(original.steps, stepIndex)
        replayStep == FindStep(replay.steps, stepIndex)
        outcome ==
            IF originalStep # NoStep /\ replayStep # NoStep
            THEN [status |-> IF compareSteps(originalStep, replayStep) # <<>>
                             THEN "modified" ELSE "identical",
                  differences |-> compareSteps(originalStep, replayStep)]
            ELSE OneSided(originalStep, replayStep)
    IN [stepIndex |-> stepIndex,
        originalStep |-> originalStep,
        replayStep |-> replayStep,
        status |-> outcome.status,
        differences |-> outcome.differences]

\* mutant: every comparison is counted, whatever its status
CountAll(stepComparisons, status) == Len(stepComparisons)

\* stepComparisons.filter(sc => sc.status === status).length
CountStatus(stepComparisons, status) ==
    LET HasStatus(sc) == sc.status = status
    IN Len(SelectSeq(stepComparisons, HasStatus))

\* mutant: only the original's indices are collected
OriginalStepIndices(original, replay) ==
    ArrayFromSet(StepIndexList(original.steps))

\* lines 452-455
AllStepIndices(original, replay) ==
    ArrayFromSet(StepIndexList(original.steps)
                 \o StepIndexList(replay.steps))

\* lines 448-502
compareSessions(original, replay) ==
    LET visited == SortAscending(AllStepIndices(original, replay))
        stepComparisons ==
            [k \in 1 .. Len(visited) |->
                StepComparisonAt(original, replay, visited[k])]
    IN [originalSession |-> original,
        replaySession |-> replay,
        stepComparisons |-> stepComparisons,
        summary |->
            [totalStepsOriginal |-> Len(original.steps),
             totalStepsReplay |-> Len(replay.steps),
             identicalSteps |-> CountStatus(stepComparisons, "identical"),
             modifiedSteps |-> CountStatus(stepComparisons, "modified"),
             addedSteps |-> CountStatus(stepComparisons, "added"),
             removedSteps |-> CountStatus(stepComparisons, "removed")]]

\* ------------------------------------------------ one call after another
\* the caller keeps the session it was handed and calls createReplaySession
\* on the same original session again; no time needs to pass in between
CallAgain ==
    /\ UNCHANGED otherVars
    /\ pc = "returned"
    /\ Len(produced) + 1 < MaxCalls
    /\ produced' = Append(produced, returned)
    /\ fromStepIndex' \in StepIndices
    /\ pc' = "idle"
    /\ targetGroup' = Absent
    /\ unchangedSteps' = <<>>
    /\ stepsToReplayInSameGroup' = <<>>
    /\ loopPos' = 1
    /\ replayedSteps' = <<>>
    /\ calls' = <<>>
    /\ results' = <<>>
    /\ rejectedAt' = Absent
    /\ returned' = NoSession
    /\ UNCHANGED <<originalSession, heap, clock, pending, settled, thrown,
                   stepsKind, replaySession, comparison>>

NextRepeated ==
    \/ Next
    \/ CallAgain

SpecRepeated == Init /\ [][NextRepeated]_vars

\* ------------------------------------------------- compareSessions called
\* stepIndex values of compared sessions; one more than a session can hold,
\* so that a session can lack an index the other one has
CompareIndices == 1 .. (MaxCompareSteps + 1)
FieldValues == {0, 1}
FileActions == {"create", "update", "delete"}
PromptPayloads == [prompt : FieldValues, response : FieldValues \cup {Absent}]
CommandPayloads == [command : FieldValues, stdout : FieldValues,
                    stderr : FieldValues, exitCode : FieldValues]
FileEditPayloads == [path : FieldValues, action : FileActions,
                     content : FieldValues]
AssistantResponsePayloads == [response : FieldValues]

\* the payloads a step of the given type can carry
PayloadsOfType(type) ==
    CASE type = "prompt" -> PromptPayloads
      [] type = "command" -> CommandPayloads
      [] type = "file_edit" -> FileEditPayloads
      [] type = "assistant_response" -> AssistantResponsePayloads

AllTypes == {"prompt", "command", "file_edit", "assistant_response"}

ComparedStep(stepIndex, type, data) ==
    [stepIndex |-> stepIndex, group |-> 1, type |-> type,
     timestamp |-> RecordedAt, replayOf |-> Absent, data |-> data]

ComparedSession(sessionId, steps) ==
    [sessionId |-> sessionId, title |-> OriginalTitle,
     createdAt |-> RecordedAt, steps |-> steps]

\* step lists over two prompt payloads: any indices, repeated ones included
\* (createReplaySession returns such lists), in any stored order
PromptStepLists ==
    UNION {[1 .. n -> {ComparedStep(stepIndex, "prompt", data) :
                          stepIndex \in CompareIndices, data \in {1, 2}}] :
           n \in 0 .. MaxCompareSteps}

\* step lists whose steps all carry the first of the two payloads
OriginalStepLists ==
    UNION {[1 .. n -> {ComparedStep(stepIndex, "prompt", 1) :
                          stepIndex \in CompareIndices}] :
           n \in 0 .. MaxCompareSteps}

OtherSessionId == <<"other">>

\* an original with steps 1, 2, 3 and a replay with steps 1, 2, 4
ThreeStepsOriginal ==
    <<ComparedStep(1, "prompt", 1), ComparedStep(2, "prompt", 1),
      ComparedStep(3, "prompt", 1)>>
ThreeStepsReplay ==
    <<ComparedStep(1, "prompt", 1), ComparedStep(2, "prompt", 1),
      ComparedStep(4, "prompt", 1)>>

\* the two arguments: two step lists over two prompt payloads (an original
\* and another session, or one session passed twice, or the three-step pair),
\* or one step each, of any type and payload, at the same index
ComparedInputs ==
    \/ /\ heap = <<[prompt |-> 0, response |-> 0],
                    [prompt |-> 0, response |-> 1]>>
       /\ \/ \E a \in OriginalStepLists, b \in PromptStepLists :
                /\ originalSession = ComparedSession(OriginalSessionId, a)
                /\ replaySession = ComparedSession(OtherSessionId, b)
          \/ \E a \in PromptStepLists :
                /\ originalSession = ComparedSession(OriginalSessionId, a)
                /\ replaySession = originalSession
          \/ /\ originalSession =
                    ComparedSession(OriginalSessionId, ThreeStepsOriginal)
             /\ replaySession =
                    ComparedSession(OtherSessionId, ThreeStepsReplay)
    \/ \E typeA, typeB \in AllTypes :
       \E payloadA \in PayloadsOfType(typeA),
          payloadB \in PayloadsOfType(typeB) :
          /\ heap = <<payloadA, payloadB>>
          /\ originalSession =
                 ComparedSession(OriginalSessionId,
                                 <<ComparedStep(1, typeA, 1)>>)
          /\ replaySession =
                 ComparedSession(OtherSessionId,
                                 <<ComparedStep(1, typeB, 2)>>)

\* nothing has been called yet
NothingCalled ==
    /\ clock = 1
    /\ pc = "idle"
    /\ targetGroup = Absent
    /\ unchangedSteps = <<>>
    /\ stepsToReplayInSameGroup = <<>>
    /\ loopPos = 1
    /\ replayedSteps = <<>>
    /\ pending = <<>>
    /\ settled = NoSettlement
    /\ calls = <<>>
    /\ results = <<>>
    /\ rejectedAt = Absent
    /\ returned = NoSession
    /\ thrown = NoError
    /\ produced = <<>>
    /\ comparison = NoComparison

InitCompare ==
    /\ ComparedInputs
    /\ fromStepIndex = 1
    /\ stepsKind = [a \in Arguments |-> "array"]
    /\ NothingCalled
    /\ OthersIdle

\* compareSessions(originalSession, replaySession) is called and returns,
\* or throws at line 452 or 453
Compare ==
    /\ UNCHANGED otherVars
    /\ pc = "idle"
    /\ comparison = NoComparison
    /\ comparison' =
           IF \A a \in Arguments : IsArray(stepsKind[a])
           THEN compareSessions(originalSession, replaySession)
           ELSE [kind |-> "threw", error |-> TypeError]
    /\ UNCHANGED <<originalSession, fromStepIndex, heap, clock, pc,
                   targetGroup, unchangedSteps, stepsToReplayInSameGroup,
                   loopPos, replayedSteps, pending, settled, calls, results,
                   rejectedAt, returned, thrown, produced, stepsKind,
                   replaySession>>

NextCompare == Compare

SpecCompare == InitCompare /\ [][NextCompare]_vars

\* --------------------------------------- sessions of any shape handed in
\* a session read from a file or from the network: its steps field holds a
\* step list or something that is not an array (no list is recorded then)
InitAnyShape ==
    /\ \E kinds \in [Arguments -> StepsKinds], a \in PromptStepLists :
          /\ stepsKind = kinds
          /\ originalSession =
                 ComparedSession(OriginalSessionId,
                                 IF kinds["original"] = "array"
                                 THEN a ELSE <<>>)
          /\ replaySession =
                 ComparedSession(OtherSessionId,
                                 IF kinds["replay"] = "array"
                                 THEN a ELSE <<>>)
    /\ heap = <<[prompt |-> 0, response |-> 0],
                [prompt |-> 0, response |-> 1]>>
    /\ fromStepIndex \in CompareIndices
    /\ NothingCalled
    /\ OthersIdle

NextAnyShape ==
    \/ Next
    \/ Compare

SpecAnyShape == InitAnyShape /\ [][NextAnyShape]_vars

\* ------------------------------------------------------------ DiffViewer
\* a text is a sequence of characters
NL == "\n"
Chars == {"a", "b", NL}
Texts == UNION {[1 .. n -> Chars] : n \in 0 .. MaxTextLen}

\* position of the first newline of a text, or one past its end
FirstNewline(text) ==
    CHOOSE i \in 1 .. Len(text) + 1 :
        /\ i = Len(text) + 1 \/ text[i] = NL
        /\ \A j \in 1 .. i - 1 : text[j] # NL

\* Diff.diffLines compares line tokens: every line with its newline, and a
\* last line without one if the text does not end in a newline
RECURSIVE Tokenize(_)
Tokenize(text) ==
    IF text = <<>> THEN <<>>
    ELSE IF FirstNewline(text) > Len(text) THEN <<text>>
    ELSE <<SubSeq(text, 1, FirstNewline(text))>>
         \o Tokenize(SubSeq(text, FirstNewline(text) + 1, Len(text)))

RECURSIVE Ascending(_)
Ascending(S) ==
    IF S = {} THEN <<>>
    ELSE LET least == CHOOSE x \in S : \A y \in S : x <= y
         IN <<least>> \o Ascending(S \ {least})

\* the old tokens at I are, in order, the new tokens at J
Aligned(old, new, I, J) ==
    /\ Cardinality(I) = Cardinality(J)
    /\ \A k \in 1 .. Cardinality(I) :
           old[Ascending(I)[k]] = new[Ascending(J)[k]]

\* the ways to keep as many tokens as possible
LongestAlignments(old, new) ==
    LET all == {p \in (SUBSET (1 .. Len(old))) \X (SUBSET (1 .. Len(new))) :
                   Aligned(old, new, p[1], p[2])}
    IN {p \in all : \A q \in all : Cardinality(q[1]) <= Cardinality(p[1])}

\* the edit script of an alignment, token by token from positions i and j:
\* in every changed stretch the removed tokens come before the added ones
RECURSIVE TokenScript(_, _, _, _, _, _)
TokenScript(old, new, I, J, i, j) ==
    IF i > Len(old) /\ j > Len(new) THEN <<>>
    ELSE IF i <= Len(old) /\ i \notin I
    THEN <<[kind |-> "removed", value |-> old[i]]>>
         \o TokenScript(old, new, I, J, i + 1, j)
    ELSE IF j <= Len(new) /\ j \notin J
    THEN <<[kind |-> "added", value |-> new[j]]>>
         \o TokenScript(old, new, I, J, i, j + 1)
    ELSE <<[kind |-> "unchanged", value |-> old[i]]>>
         \o TokenScript(old, new, I, J, i + 1, j + 1)

\* neighbouring entries of one kind become one change object
RECURSIVE MergeChanges(_)
MergeChanges(script) ==
    IF Len(script) < 2 THEN script
    ELSE LET rest == MergeChanges(Tail(script))
         IN IF Head(script).kind = Head(rest).kind
            THEN <<[kind |-> Head(script).kind,
                    value |-> Head(script).value \o Head(rest).value]>>
                 \o Tail(rest)
            ELSE <<Head(script)>> \o rest

\* what Diff.diffLines(oldValue, newValue) can return: a shortest edit
\* script over the line tokens
DiffLibrary(oldValue, newValue) ==
    {MergeChanges(TokenScript(Tokenize(oldValue), Tokenize(newValue),
                              p[1], p[2], 1, 1)) :
        p \in LongestAlignments(Tokenize(oldValue), Tokenize(newValue))}

\* value.split('\n')
RECURSIVE Split(_)
Split(value) ==
    IF FirstNewline(value) > Len(value) THEN <<value>>
    ELSE <<SubSeq(value, 1, FirstNewline(value) - 1)>>
         \o Split(SubSeq(value, FirstNewline(value) + 1, Len(value)))

\* mutant: the empty segment after a final newline is kept as a line
KeepEverySegment(segments) == segments

\* .filter((line, index, arr) => index < arr.length - 1 || line !== '')
DropEmptyLast(segments) ==
    IF segments[Len(segments)] = <<>>
    THEN SubSeq(segments, 1, Len(segments) - 1)
    ELSE segments

\* lines 55-57
LinesOfChange(change) == DropEmptyLast(Split(change.value))

Filler == [type |-> "unchanged", content |-> <<>>, lineNumber |-> 0]

\* lines 59-100 for one change: the rows it adds to the left pane, numbered
\* from leftLineNum
LeftRows(change, leftLineNum) ==
    [k \in 1 .. Len(LinesOfChange(change)) |->
        IF change.kind = "added" THEN Filler
        ELSE [type |-> change.kind,
              content |-> LinesOfChange(change)[k],
              lineNumber |-> leftLineNum + k - 1]]

\* and the rows it adds to the right pane, numbered from rightLineNum
RightRows(change, rightLineNum) ==
    [k \in 1 .. Len(LinesOfChange(change)) |->
        IF change.kind = "removed" THEN Filler
        ELSE [type |-> change.kind,
              content |-> LinesOfChange(change)[k],
              lineNumber |-> rightLineNum + k - 1]]

\* lines 46-105: changes.forEach from the given line numbers
RECURSIVE Panes(_, _, _)
Panes(script, leftLineNum, rightLineNum) ==
    IF script = <<>> THEN [leftLines |-> <<>>, rightLines |-> <<>>]
    ELSE LET change == Head(script)
             count == Len(LinesOfChange(change))
             rest == Panes(Tail(script),
                           IF change.kind = "added" THEN leftLineNum
                           ELSE leftLineNum + count,
                           IF change.kind = "removed" THEN rightLineNum
                           ELSE rightLineNum + count)
         IN [leftLines |-> LeftRows(change, leftLineNum) \o rest.leftLines,
             rightLines |->
                 RightRows(change, rightLineNum) \o rest.rightLines]

\* lines 107-122: changes.forEach adding up split('\n').length - 1
RECURSIVE Stats(_)
Stats(script) ==
    IF script = <<>> THEN [additions |-> 0, deletions |-> 0]
    ELSE LET change == Head(script)
             lineCount == Len(Split(change.value)) - 1
             rest == Stats(Tail(script))
         IN [additions |-> rest.additions
                           + (IF change.kind = "added" THEN lineCount ELSE 0),
             deletions |-> rest.deletions
                           + (IF change.kind = "removed" THEN lineCount ELSE 0)]

\* nothing of the replay engine is in use
ReplayIdle ==
    /\ originalSession = NoSession
    /\ replaySession = NoSession
    /\ fromStepIndex = Absent
    /\ heap = <<>>
    /\ stepsKind = [a \in Arguments |-> "array"]
    /\ NothingCalled

InitDiff ==
    /\ ReplayIdle
    /\ ServerIdle
    /\ AppIdle
    /\ diffProps \in [oldValue : Texts, newValue : Texts]
    /\ diffStage = "idle"
    /\ changes = <<>>
    /\ diffLines = [leftLines |-> <<>>, rightLines |-> <<>>]
    /\ diffStats = [additions |-> 0, deletions |-> 0]

\* DiffViewer renders: both useMemo callbacks run on the same props, and
\* Diff.diffLines returns the same script to both
RenderDiffViewer ==
    /\ diffStage = "idle"
    /\ \E script \in DiffLibrary(diffProps.oldValue, diffProps.newValue) :
          /\ changes' = script
          /\ diffLines' = Panes(script, 1, 1)
          /\ diffStats' = Stats(script)
    /\ diffStage' = "rendered"
    /\ UNCHANGED <<replayVars, diffProps, serverVars, appVars>>

NextDiff == RenderDiffViewer

SpecDiff == InitDiff /\ [][NextDiff]_vars

\* ---------------------------------------------------------------- server
\* the session ids of the files a sessions directory can hold, in the order
\* readdirSync lists the files; an id is hexadecimal (parseSessionId)
SessionFileIds == <<"a1", "b2", "c3">>
FileNumbers == 1 .. Len(SessionFileIds)

\* the directories: missing, or holding any of the files, each with the
\* time it was last modified
Directories ==
    {[exists |-> FALSE, modified |-> [f \in FileNumbers |-> Absent]]}
    \cup {[exists |-> TRUE, modified |-> m] :
             m \in [FileNumbers -> {Absent} \cup ClockReadings]}

FilesIn(dir) == {f \in FileNumbers : dir.modified[f] # Absent}

\* the requests: GET /api/session/<segment>
Requests ==
    {<<"api", "session", segment>> :
        segment \in Range(SessionFileIds) \cup {"latest"}}

\* the routes in the order app.get registers them
Routes ==
    <<[path |-> <<"api", "session", ":id">>, handler |-> "session"],
      [path |-> <<"api", "session", "latest">>, handler |-> "latest"]>>

\* a route path matches a request path segment by segment; a parameter
\* segment matches any segment
Matches(routePath, requestPath) ==
    /\ Len(routePath) = Len(requestPath)
    /\ \A i \in 1 .. Len(routePath) :
           routePath[i] = ":id" \/ routePath[i] = requestPath[i]

\* the first registered route that matches handles the request
Dispatch(requestPath) ==
    Routes[CHOOSE r \in 1 .. Len(Routes) :
               /\ Matches(Routes[r].path, requestPath)
               /\ \A q \in 1 .. r - 1 :
                      ~Matches(Routes[q].path, requestPath)].handler

\* lines 119-147: GET /api/session/:id
SessionHandler(dir, sessionId) ==
    IF ~dir.exists
    THEN [handler |-> "session", status |-> 404,
          body |-> [error |-> "Sessions directory not found"]]
    ELSE LET files == {f \in FilesIn(dir) : SessionFileIds[f] = sessionId}
         IN IF files = {}
            THEN [handler |-> "session", status |-> 404,
                  body |-> [error |-> "Session not found"]]
            ELSE [handler |-> "session", status |-> 200,
                  body |-> [sessionId |-> sessionId,
                            filename |-> CHOOSE f \in files :
                                             \A g \in files : f <= g]]

\* lines 150-185: GET /api/session/latest; the sort is stable, so among
\* files modified at the same time the first listed one comes first
LatestHandler(dir) ==
    IF ~dir.exists \/ FilesIn(dir) = {}
    THEN [handler |-> "latest", status |-> 200,
          body |-> [sessionId |-> "null"]]
    ELSE LET latest ==
                 CHOOSE f \in FilesIn(dir) :
                     \A g \in FilesIn(dir) :
                         \/ dir.modified[g] < dir.modified[f]
                         \/ dir.modified[g] = dir.modified[f] /\ f <= g
         IN [handler |-> "latest", status |-> 200,
             body |-> [sessionId |-> SessionFileIds[latest],
                       filename |-> latest,
                       modified |-> dir.modified[latest]]]

InitServer ==
    /\ ReplayIdle
    /\ DiffIdle
    /\ AppIdle
    /\ sessionsDir \in Directories
    /\ request \in Requests
    /\ response = NoResponse

\* the server receives the request and the matching handler answers it
ServerHandles ==
    /\ response = NoResponse
    /\ response' =
           IF Dispatch(request) = "session"
           THEN SessionHandler(sessionsDir, request[3])
           ELSE LatestHandler(sessionsDir)
    /\ UNCHANGED <<replayVars, diffVars, appVars, sessionsDir, request>>

NextServer == ServerHandles

SpecServer == InitServer /\ [][NextServer]_vars

\* ------------------------------------- a replay compared with its original
\* the recorded prompt payload and the one a re-execution produces: the
\* same prompt with another response
RecordedPromptPayload == [prompt |-> 0, response |-> 0]
ReExecutedPromptPayload == [prompt |-> 0, response |-> 1]

\* an original session of prompt steps with unique stepIndex values, all
\* carrying the recorded payload, and a cut step index
InitReplayCompare ==
    /\ \E a \in OriginalStepLists :
          /\ \A i, j \in 1 .. Len(a) :
                 a[i].stepIndex = a[j].stepIndex => i = j
          /\ originalSession = ComparedSession(OriginalSessionId, a)
    /\ heap = <<RecordedPromptPayload>>
    /\ replaySession = NoSession
    /\ fromStepIndex \in CompareIndices
    /\ stepsKind = [a \in Arguments |-> "array"]
    /\ NothingCalled
    /\ OthersIdle

\* an executor that resolves the oldest pending call with a step of the
\* same stepIndex, group and type whose payload has another response
ExecutorResolvesChanged ==
    /\ UNCHANGED otherVars
    /\ pending # <<>>
    /\ settled = NoSettlement
    /\ heap' = Append(heap, ReExecutedPromptPayload)
    /\ settled' = [kind |-> "resolved",
                   value |-> [Head(pending) EXCEPT !.data = Len(heap) + 1]]
    /\ results' = Append(results, settled'.value)
    /\ clock' \in {t \in ClockReadings : t >= clock}
    /\ pending' = Tail(pending)
    /\ UNCHANGED <<originalSession, fromStepIndex, pc, targetGroup,
                   unchangedSteps, stepsToReplayInSameGroup, loopPos,
                   replayedSteps, calls, rejectedAt, returned, thrown,
                   produced, stepsKind, replaySession, comparison>>

\* the replay session is compared with the session it was made from
CompareReplayWithOriginal ==
    /\ UNCHANGED otherVars
    /\ pc = "returned"
    /\ comparison = NoComparison
    /\ replaySession' = returned
    /\ comparison' = compareSessions(originalSession, returned)
    /\ UNCHANGED <<originalSession, fromStepIndex, heap, clock, pc,
                   targetGroup, unchangedSteps, stepsToReplayInSameGroup,
                   loopPos, replayedSteps, pending, settled, calls, results,
                   rejectedAt, returned, thrown, produced, stepsKind>>

NextReplayCompare ==
    \/ Call
    \/ ExecutorResolvesChanged
    \/ ExecutorRejects
    \/ ResumeResolved
    \/ ResumeRejected
    \/ CompareReplayWithOriginal

SpecReplayCompare == InitReplayCompare /\ [][NextReplayCompare]_vars

\* ------------------------------ branching with the shipped mock executor
\* the payloads of well-typed steps that mockExecuteStep is given: a prompt
\* step carries data.prompt and, in recorded sessions, data.response
MockPromptPayloads == [prompt : {0}, response : FieldValues \cup {Absent}]
MockCommandPayloads == [command : FieldValues, stdout : {0}, stderr : {0},
                        exitCode : FieldValues]
MockFileEditPayloads == [path : {0}, action : FileActions, content : {0}]

MockPayloadsOfType(type) ==
    CASE type = "prompt" -> MockPromptPayloads
      [] type = "command" -> MockCommandPayloads
      [] type = "file_edit" -> MockFileEditPayloads
      [] type = "assistant_response" -> AssistantResponsePayloads

\* originalResponse.includes(...) of line 126: a TypeError when data.response
\* is undefined, which rejects the promise of the async function
mockExecutePromptStep(step, payload, fresh) ==
    IF payload.response = Absent
    THEN {[kind |-> "rejected"]}
    ELSE {[kind |-> "resolved", value |-> [step EXCEPT !.data = fresh],
           payload |-> [payload EXCEPT !.response = r]] : r \in FieldValues}

\* { ...step, data: { ...step.data, ...variation } }
mockExecuteCommandStep(step, payload, fresh) ==
    {[kind |-> "resolved", value |-> [step EXCEPT !.data = fresh],
      payload |-> [payload EXCEPT !.stdout = out, !.stderr = err,
                                  !.exitCode = code]] :
        out \in FieldValues, err \in FieldValues,
        code \in {payload.exitCode, 0}}

\* { ...step, data: { ...step.data, content: modifiedContent } }
mockExecuteFileEditStep(step, payload, fresh) ==
    {[kind |-> "resolved", value |-> [step EXCEPT !.data = fresh],
      payload |-> [payload EXCEPT !.content = c]] :
        c \in IF payload.action \in {"create", "update"}
              THEN FieldValues ELSE {payload.content}}

\* the settlements of the promise mockExecuteStep returns for a step whose
\* payload object is the given one; fresh is the address of a new object
mockExecuteStep(step, payload, fresh) ==
    CASE step.type = "prompt" -> mockExecutePromptStep(step, payload, fresh)
      [] step.type = "command" -> mockExecuteCommandStep(step, payload, fresh)
      [] step.type = "file_edit" ->
             mockExecuteFileEditStep(step, payload, fresh)
      [] OTHER -> {[kind |-> "resolved", value |-> step, payload |-> payload]}

\* a recorded session of well-typed steps 0, 1, ... of one group, about to be
\* branched with mockExecuteStep as the executor
InitMock ==
    /\ \E n \in 1 .. MaxSteps, type \in AllTypes :
          /\ originalSession =
                 [sessionId |-> OriginalSessionId, title |-> OriginalTitle,
                  createdAt |-> RecordedAt,
                  steps |-> RecordedSteps([i \in 1 .. n |-> i - 1],
                                          [i \in 1 .. n |-> 1], type)]
          /\ heap \in [1 .. n -> MockPayloadsOfType(type)]
    /\ fromStepIndex \in StepIndices
    /\ clock = 1
    /\ stepsKind = [a \in Arguments |-> "array"]
    /\ replaySession = NoSession
    /\ NothingCalled
    /\ OthersIdle

\* the promise of the oldest pending mockExecuteStep call settles
MockExecuteStepSettles ==
    /\ UNCHANGED otherVars
    /\ UNCHANGED <<produced, stepsKind, replaySession, comparison>>
    /\ pending # <<>>
    /\ settled = NoSettlement
    /\ \E outcome \in mockExecuteStep(Head(pending), heap[Head(pending).data],
                                      Len(heap) + 1) :
          IF outcome.kind = "resolved"
          THEN /\ heap' = IF outcome.value.data = Len(heap) + 1
                          THEN Append(heap, outcome.payload) ELSE heap
               /\ settled' = [kind |-> "resolved", value |-> outcome.value]
               /\ results' = Append(results, outcome.value)
               /\ rejectedAt' = rejectedAt
          ELSE /\ heap' = heap
               /\ settled' = [kind |-> "rejected"]
               /\ results' = results
               /\ rejectedAt' = Head(pending).stepIndex
    /\ clock' \in {t \in ClockReadings : t >= clock}
    /\ pending' = Tail(pending)
    /\ UNCHANGED <<originalSession, fromStepIndex, pc, targetGroup,
                   unchangedSteps, stepsToReplayInSameGroup, loopPos,
                   replayedSteps, calls, returned, thrown>>

NextMock ==
    \/ Call
    \/ MockExecuteStepSettles
    \/ ResumeResolved
    \/ ResumeRejected

SpecMock == InitMock /\ [][NextMock]_vars

\* -------------------------------------------------------------- the App
MaxStored == 2                   \* steps the server records of one session
MaxPolls == 1                    \* poll requests outstanding at a time
MaxReplays == 1                  \* handleReplayFromHere calls of one run

\* the demo sessions: listed by /api/sessions and present as local files
AppSessionIds == {<<"sess-001">>, <<"sess-002">>}

\* the first n recorded steps of a session
StoredSteps(n) ==
    RecordedSteps([i \in 1 .. n |-> i - 1], [i \in 1 .. n |-> 1], "prompt")

\* apiData.data of GET /api/session/:id while n steps are recorded
SessionData(sessionId, n) ==
    [sessionId |-> sessionId, title |-> OriginalTitle,
     createdAt |-> RecordedAt, steps |-> StoredSteps(n)]

\* /data/session<k>.json: the whole recorded session
LocalFile(sessionId) == SessionData(sessionId, MaxStored)

\* what loadSessionsData leaves in allSessions: nothing when /api/sessions
\* answered (the return of line 63), the local files otherwise (line 129)
LoadedSessions(fromApi) ==
    IF fromApi THEN <<>>
    ELSE <<LocalFile(<<"sess-001">>), LocalFile(<<"sess-002">>)>>

\* allSessions.find(s => s.sessionId === sessionId)
FindSession(sessions, sessionId) ==
    LET HasId(s) == s.sessionId = sessionId
        matching == SelectSeq(sessions, HasId)
    IN  IF matching = <<>> THEN NoSession ELSE Head(matching)

IsReplay(session) == "isReplaySession" \in DOMAIN session

Replays(sessions) == SelectSeq(sessions, IsReplay)

\* steps[0].stepIndex when the session has steps
FirstStepIndex(session) ==
    IF session.steps = <<>> THEN Absent ELSE session.steps[1].stepIndex

\* replaySession.steps[0]?.stepIndex || null: stepIndex 0 is falsy
FirstStepIndexOrNull(session) ==
    IF session.steps = <<>> \/ session.steps[1].stepIndex = 0
    THEN Absent ELSE session.steps[1].stepIndex

\* the sessions createReplaySession(session, fromStepIndex, mockExecuteStep)
\* can resolve to: the executor resolves for the first k tail steps
createReplaySession(session, stepIndex) ==
    LET fromStep == FindStep(session.steps, stepIndex)
        unchanged == UnchangedSteps(session.steps, fromStep.group)
        tail == StepsToReplay(session.steps, fromStep.group, stepIndex)
        Replayed(k, now) ==
            [i \in 1 .. k |->
                TagReplayed([tail[i] EXCEPT !.data = Len(session.steps) + i],
                            tail[i], now)]
    IN  {ReplaySession(session, stepIndex, unchanged, Replayed(k, now), now) :
            k \in 0 .. Len(tail), now \in ClockReadings}

\* the App after loadSessionsData has finished
InitApp ==
    /\ ReplayIdle
    /\ DiffIdle
    /\ ServerIdle
    /\ apiAvailable \in BOOLEAN
    /\ allSessions = LoadedSessions(apiAvailable)
    /\ stored = [sessionId \in AppSessionIds |-> 1]
    /\ currentSession = NoSession
    /\ selectedStep = Absent
    /\ view = "sessions"
    /\ compareData = NoCompareData
    /\ isLiveMode = FALSE
    /\ polls = {}
    /\ selects = {}
    /\ replays = {}
    /\ compared = NoArguments

\* the Live Mode switch (lines 408, 531)
setIsLiveMode(checked) ==
    /\ view \in {"sessions", "workflow"}
    /\ isLiveMode # checked
    /\ isLiveMode' = checked
    /\ UNCHANGED <<apiAvailable, stored, allSessions, currentSession,
                   selectedStep, view, compareData, polls, selects, replays,
                   compared>>
    /\ UNCHANGED <<replayVars, diffVars, serverVars>>

\* the interval callback of lines 141-143: the fetch is sent for the
\* session the effect closed over
PollTick ==
    /\ isLiveMode
    /\ currentSession # NoSession
    /\ apiAvailable
    /\ Cardinality(polls) < MaxPolls
    /\ polls' = polls \cup {[sessionId |-> currentSession.sessionId,
                             length |-> Len(currentSession.steps)]}
    /\ UNCHANGED <<apiAvailable, stored, allSessions, currentSession,
                   selectedStep, view, compareData, isLiveMode, selects,
                   replays, compared>>
    /\ UNCHANGED <<replayVars, diffVars, serverVars>>

\* lines 144-155: the fetch of a poll settles and the callback goes on
PollSettles ==
    /\ \E poll \in polls :
          /\ polls' = polls \ {poll}
          /\ currentSession' =
                 IF /\ apiAvailable
                    /\ poll.sessionId \in DOMAIN stored
                    /\ stored[poll.sessionId] # poll.length
                 THEN SessionData(poll.sessionId, stored[poll.sessionId])
                 ELSE currentSession
    /\ UNCHANGED <<apiAvailable, stored, allSessions, selectedStep, view,
                   compareData, isLiveMode, selects, replays, compared>>
    /\ UNCHANGED <<replayVars, diffVars, serverVars>>

\* lines 162-175: a card of the session list is opened
handleSessionSelect(sessionId) ==
    /\ view = "sessions"
    /\ LET replaySessionFound == FindSession(allSessions, sessionId)
       IN  IF replaySessionFound # NoSession
           THEN /\ currentSession' = replaySessionFound
                /\ view' = "workflow"
                /\ selectedStep' =
                       IF replaySessionFound.steps # <<>>
                       THEN FirstStepIndex(replaySessionFound)
                       ELSE selectedStep
                /\ selects' = selects
           ELSE /\ selects' = selects \cup {sessionId}
                /\ UNCHANGED <<currentSession, view, selectedStep>>
    /\ UNCHANGED <<apiAvailable, stored, allSessions, compareData, isLiveMode,
                   polls, replays, compared>>
    /\ UNCHANGED <<replayVars, diffVars, serverVars>>

\* lines 176-226: the session arrives from the API or, when the API cannot
\* be reached, from the local file
handleSessionSelectLoaded ==
    /\ \E sessionId \in selects :
          LET sessionData == IF apiAvailable
                             THEN SessionData(sessionId, stored[sessionId])
                             ELSE LocalFile(sessionId)
          IN  /\ selects' = selects \ {sessionId}
              /\ currentSession' = sessionData
              /\ view' = "workflow"
              /\ selectedStep' = IF sessionData.steps # <<>>
                                 THEN FirstStepIndex(sessionData)
                                 ELSE selectedStep
    /\ UNCHANGED <<apiAvailable, stored, allSessions, compareData, isLiveMode,
                   polls, replays, compared>>
    /\ UNCHANGED <<replayVars, diffVars, serverVars>>

\* lines 265-274: createReplaySession is called and awaited
handleReplayFromHere ==
    /\ view = "workflow"
    /\ currentSession # NoSession
    /\ Cardinality(replays) + Len(Replays(allSessions)) < MaxReplays
    /\ \E i \in 1 .. Len(currentSession.steps) :
          replays' = replays \cup
              {[session |-> currentSession,
                fromStepIndex |-> currentSession.steps[i].stepIndex]}
    /\ UNCHANGED <<apiAvailable, stored, allSessions, currentSession,
                   selectedStep, view, compareData, isLiveMode, polls,
                   selects, compared>>
    /\ UNCHANGED <<replayVars, diffVars, serverVars>>

\* lines 276-294: the replay session is stored and becomes the current one
handleReplayFromHereBranched ==
    /\ \E call \in replays :
       \E replay \in createReplaySession(call.session, call.fromStepIndex) :
          /\ replays' = replays \ {call}
          /\ allSessions' = Append(allSessions, replay)
          /\ currentSession' = replay
          /\ selectedStep' = FirstStepIndexOrNull(replay)
    /\ UNCHANGED <<apiAvailable, stored, view, compareData, isLiveMode, polls,
                   selects, compared>>
    /\ UNCHANGED <<replayVars, diffVars, serverVars>>

\* lines 302-310, called by the compare button of a replay session's card
handleCompareSession(originalSessionId, replaySessionId) ==
    /\ view = "sessions"
    /\ compared' = [originalSessionId |-> originalSessionId,
                    replaySessionId |-> replaySessionId]
    /\ LET original == FindSession(allSessions, originalSessionId)
           replay == FindSession(allSessions, replaySessionId)
       IN  IF original # NoSession /\ replay # NoSession
           THEN /\ compareData' = [originalSession |-> original,
                                   replaySession |-> replay]
                /\ view' = "compare"
           ELSE UNCHANGED <<compareData, view>>
    /\ UNCHANGED <<apiAvailable, stored, allSessions, currentSession,
                   selectedStep, isLiveMode, polls, selects, replays>>
    /\ UNCHANGED <<replayVars, diffVars, serverVars>>

\* lines 318-324
handleBackToSessions ==
    /\ view = "workflow"
    /\ view' = "sessions"
    /\ currentSession' = NoSession
    /\ selectedStep' = Absent
    /\ compareData' = NoCompareData
    /\ UNCHANGED <<apiAvailable, stored, allSessions, isLiveMode, polls,
                   selects, replays, compared>>
    /\ UNCHANGED <<replayVars, diffVars, serverVars>>

\* lines 327-330
handleCloseComparison ==
    /\ view = "compare"
    /\ view' = "sessions"
    /\ compareData' = NoCompareData
    /\ UNCHANGED <<apiAvailable, stored, allSessions, currentSession,
                   selectedStep, isLiveMode, polls, selects, replays,
                   compared>>
    /\ UNCHANGED <<replayVars, diffVars, serverVars>>

\* the capture server appends a step to a session it is recording
ServerRecordsStep ==
    /\ apiAvailable
    /\ \E sessionId \in AppSessionIds :
          /\ stored[sessionId] < MaxStored
          /\ stored' = [stored EXCEPT ![sessionId] = @ + 1]
    /\ UNCHANGED <<apiAvailable, allSessions, currentSession, selectedStep,
                   view, compareData, isLiveMode, polls, selects, replays,
                   compared>>
    /\ UNCHANGED <<replayVars, diffVars, serverVars>>

\* the API server is started or stopped
ApiAvailabilityChanges ==
    /\ apiAvailable' = ~apiAvailable
    /\ UNCHANGED <<stored, allSessions, currentSession, selectedStep, view,
                   compareData, isLiveMode, polls, selects, replays,
                   compared>>
    /\ UNCHANGED <<replayVars, diffVars, serverVars>>

NextApp ==
    \/ \E checked \in BOOLEAN : setIsLiveMode(checked)
    \/ PollTick
    \/ PollSettles
    \/ \E sessionId \in AppSessionIds : handleSessionSelect(sessionId)
    \/ \E i \in 1 .. Len(allSessions) :
          handleSessionSelect(allSessions[i].sessionId)
    \/ handleSessionSelectLoaded
    \/ handleReplayFromHere
    \/ handleReplayFromHereBranched
    \/ \E i \in 1 .. Len(allSessions) :
          /\ IsReplay(allSessions[i])
          /\ handleCompareSession(allSessions[i].replayOf,
                                  allSessions[i].sessionId)
    \/ handleBackToSessions
    \/ handleCloseComparison
    \/ ServerRecordsStep
    \/ ApiAvailabilityChanges

SpecApp == InitApp /\ [][NextApp]_vars

\* ------------------------------------------- callers writing to payloads
\* what a caller can write into a payload field
PayloadContents == {OriginalPayload, ReplayedPayload}

\* the caller assigns to a field of returned.steps[i].data
MutateResultPayload ==
    /\ UNCHANGED otherVars
    /\ UNCHANGED <<produced, stepsKind, replaySession, comparison>>
    /\ pc = "returned"
    /\ \E i \in 1 .. Len(returned.steps), content \in PayloadContents :
          /\ content # heap[returned.steps[i].data]
          /\ heap' = [heap EXCEPT ![returned.steps[i].data] = content]
    /\ UNCHANGED <<originalSession, fromStepIndex, clock, pc, targetGroup,
                   unchangedSteps, stepsToReplayInSameGroup, loopPos,
                   replayedSteps, pending, settled, calls, results,
                   rejectedAt, returned, thrown>>

\* the caller assigns to a field of originalSession.steps[i].data
MutateOriginalPayload ==
    /\ UNCHANGED otherVars
    /\ UNCHANGED <<produced, stepsKind, replaySession, comparison>>
    /\ pc = "returned"
    /\ \E i \in 1 .. Len(originalSession.steps), content \in PayloadContents :
          /\ content # heap[originalSession.steps[i].data]
          /\ heap' = [heap EXCEPT ![originalSession.steps[i].data] = content]
    /\ UNCHANGED <<originalSession, fromStepIndex, clock, pc, targetGroup,
                   unchangedSteps, stepsToReplayInSameGroup, loopPos,
                   replayedSteps, pending, settled, calls, results,
                   rejectedAt, returned, thrown>>

NextWithWrites ==
    \/ Next
    \/ MutateResultPayload
    \/ MutateOriginalPayload

SpecWithWrites == Init /\ [][NextWithWrites]_vars

\* ------------------------------------------------------- claim vocabulary
Settled == pc \in {"returned", "threw"}

\* the original session has a step with this stepIndex
HasStep(stepIndex) ==
    \E i \in 1 .. Len(originalSession.steps) :
        originalSession.steps[i].stepIndex = stepIndex

\* the step of the original session with this stepIndex
OriginalStep(stepIndex) ==
    CHOOSE step \in Range(originalSession.steps) : step.stepIndex = stepIndex

CutGroup == OriginalStep(fromStepIndex).group

\* the steps the contract wants replayed: same group as the cut, after the
\* cut, in ascending stepIndex order
ExpectedTail ==
    LET group == CutGroup
        tail == {step \in Range(originalSession.steps) :
                    step.group = group /\ step.stepIndex > fromStepIndex}
    IN  [k \in 1 .. Cardinality(tail) |->
            CHOOSE step \in tail :
                Cardinality({t \in tail : t.stepIndex < step.stepIndex}) = k - 1]

\* the steps of the returned session that were copied / appended from results
CopiedPart == SubSeq(returned.steps, 1, Len(returned.steps) - Len(replayedSteps))

AppendedPart ==
    SubSeq(returned.steps, Len(returned.steps) - Len(replayedSteps) + 1,
           Len(returned.steps))

\* field-for-field equality of two steps, the payload content included
SameStep(a, b) ==
    /\ a.stepIndex = b.stepIndex /\ a.group = b.group /\ a.type = b.type
    /\ a.timestamp = b.timestamp /\ a.replayOf = b.replayOf
    /\ heap[a.data] = heap[b.data]

StrictlyIncreasing(steps) ==
    \A i, j \in 1 .. Len(steps) : i < j => steps[i].stepIndex < steps[j].stepIndex

ExecutorKeptStepIndex ==
    \A j \in 1 .. Len(results) : results[j].stepIndex = calls[j].stepIndex

ExecutorKeptGroup ==
    \A j \in 1 .. Len(results) : results[j].group = calls[j].group

\* ------------------------------------------------------------------- C1
\* C1: a call whose cut index no step of the original carries ends in a
\* not-found error naming that index: no session is returned, the executor
\* is never called and no step is picked in place of the missing one.
C1_StepNotFound ==
    (pc # "idle" /\ ~HasStep(fromStepIndex)) =>
        /\ pc = "threw"
        /\ thrown = [message |-> "not found", step |-> fromStepIndex]
        /\ returned = NoSession
        /\ calls = <<>>
        /\ targetGroup = Absent /\ unchangedSteps = <<>>

C1_Witness ==
    /\ pc = "threw"
    /\ ~HasStep(fromStepIndex)
    /\ originalSession.steps # <<>>

\* ------------------------------------------------------------------- C2
\* C2: once the executor has rejected its k-th call, that call stays the last
\* one; the call still returns a session and throws nothing, and the session
\* ends with the replayed versions of tail steps 1..k-1, in order.
C2_PartialFailureKeepsReplayed ==
    rejectedAt # Absent =>
        LET k == Len(calls)
            tail == ExpectedTail
        IN
        /\ calls[k].stepIndex = rejectedAt
        /\ tail[k].stepIndex = rejectedAt
        /\ pending = <<>>
        /\ Len(replayedSteps) = k - 1
        /\ Settled =>
              /\ pc = "returned" /\ thrown = NoError /\ returned # NoSession
              /\ LET appended == AppendedPart IN
                 /\ Len(appended) = k - 1
                 /\ \A j \in 1 .. k - 1 :
                       /\ appended[j] = replayedSteps[j]
                       /\ appended[j].replayOf = tail[j].stepIndex

C2_Witness ==
    /\ pc = "returned"
    /\ rejectedAt # Absent
    /\ Len(calls) = 2
    /\ Len(AppendedPart) = 1

\* ------------------------------------------------------------------- C3
\* C3: when the executor rejected on the tail step with stepIndex f, the
\* returned session has no step with stepIndex f and no step with the
\* stepIndex of a later tail step.
C3_FailingStepOmitted ==
    (pc = "returned" /\ rejectedAt # Absent) =>
        LET tail == ExpectedTail IN
        \A i \in 1 .. Len(returned.steps) :
            /\ returned.steps[i].stepIndex # rejectedAt
            /\ \A k \in 1 .. Len(tail) :
                  tail[k].stepIndex > rejectedAt =>
                      returned.steps[i].stepIndex # tail[k].stepIndex

\* ------------------------------------------------------------------- C4
\* C4: branching a session stored in strictly increasing stepIndex order,
\* with an executor that returns the stepIndex of its input, returns a session
\* whose stepIndex values are again strictly increasing in stored order (and
\* so pairwise distinct).
C4_IndicesStayStrictlyIncreasing ==
    (/\ pc = "returned"
     /\ StrictlyIncreasing(originalSession.steps)
     /\ ExecutorKeptStepIndex) =>
        StrictlyIncreasing(returned.steps)

\* ------------------------------------------------------------------- C5
\* C5 as stated: every step of the returned session with group <= group(i)
\* equals field for field the step of the original with the same stepIndex.
C5_EveryPrefixGroupStepPreserved ==
    pc = "returned" =>
        LET group == CutGroup IN
        \A i \in 1 .. Len(returned.steps) :
            returned.steps[i].group <= group =>
                /\ HasStep(returned.steps[i].stepIndex)
                /\ SameStep(returned.steps[i],
                            OriginalStep(returned.steps[i].stepIndex))

\* C5 amended: every step of the returned session other than those appended
\* from executor results equals field for field (timestamp, replayOf and
\* payload included) the step of the original with the same stepIndex.
C5_CopiedStepsPreserved ==
    pc = "returned" =>
        LET copied == CopiedPart IN
        \A i \in 1 .. Len(copied) :
            /\ HasStep(copied[i].stepIndex)
            /\ SameStep(copied[i], OriginalStep(copied[i].stepIndex))

C5_Witness ==
    /\ pc = "returned"
    /\ Len(CopiedPart) >= 2
    /\ Len(AppendedPart) >= 1
    /\ heap[AppendedPart[1].data] # OriginalPayload

\* ------------------------------------------------------------------- C6
\* C6 as stated: no step of the returned session has group > group(i),
\* whatever the executor did.
C6_NoLaterGroup ==
    pc = "returned" =>
        LET group == CutGroup IN
        \A i \in 1 .. Len(returned.steps) : returned.steps[i].group <= group

\* C6 amended: with an executor that returns the group of its input, no step
\* of the returned session has group > group(i), whether or not the executor
\* rejected; every step of a later group of the original is dropped.
C6_NoLaterGroupWhenExecutorKeepsGroup ==
    (pc = "returned" /\ ExecutorKeptGroup) =>
        LET group == CutGroup IN
        \A i \in 1 .. Len(returned.steps) : returned.steps[i].group <= group

C6_Witness ==
    /\ pc = "returned"
    /\ ExecutorKeptGroup
    /\ Len(AppendedPart) >= 1
    /\ \E step \in Range(originalSession.steps) : step.group > CutGroup

\* ------------------------------------------------------------------- C7
\* C7: the steps passed to the executor are, at every moment, the first ones
\* of the tail (group = group(i), stepIndex > i) taken in ascending stepIndex
\* order, each once; when the call returns without a rejection they are the
\* whole tail.  The cut step and steps of other groups are never passed.
C7_ExecutorCalledOnTailAscending ==
    /\ Len(calls) > 0 => HasStep(fromStepIndex)
    /\ HasStep(fromStepIndex) =>
          LET tail == ExpectedTail IN
          /\ Len(calls) <= Len(tail)
          /\ \A j \in 1 .. Len(calls) : calls[j] = tail[j]
          /\ (pc = "returned" /\ rejectedAt = Absent) => calls = tail

C7_Witness ==
    /\ pc = "returned"
    /\ rejectedAt = Absent
    /\ Len(calls) = 2
    /\ \E i, j \in 1 .. Len(originalSession.steps) :
          /\ i < j
          /\ originalSession.steps[i] = calls[2]
          /\ originalSession.steps[j] = calls[1]

\* ------------------------------------------------------------------- C8
\* C8: at most one executor call is unsettled at any time, a new call is
\* made only when every earlier call has resolved and been appended, and
\* there are never more appended steps than resolved calls.
C8_OneCallInFlight ==
    /\ Len(pending) <= 1
    /\ pending # <<>> =>
          /\ settled = NoSettlement
          /\ rejectedAt = Absent
          /\ Len(results) = Len(calls) - 1
          /\ Len(replayedSteps) = Len(results)
    /\ Len(replayedSteps) <= Len(results)

C8_Witness ==
    /\ Len(pending) = 1
    /\ Len(calls) = 2
    /\ Len(replayedSteps) = 1

\* ------------------------------------------------------------------- C9
\* C9: the j-th appended step is the j-th executor result with replayOf set
\* to the stepIndex of the step that was passed and timestamp set to a clock
\* reading of the replay (not older than the previous one), whatever
\* replayOf and timestamp the executor returned; when the result has the type
\* of the step passed, so has the appended step.
C9_ReplayedStepsTagged ==
    replayedSteps # <<>> =>
    LET tail == ExpectedTail IN
    \A j \in 1 .. Len(replayedSteps) :
        LET r == replayedSteps[j] IN
        /\ r.replayOf = calls[j].stepIndex
        /\ r.replayOf = tail[j].stepIndex
        /\ r.timestamp \in ClockReadings
        /\ r.timestamp <= clock
        /\ j > 1 => replayedSteps[j - 1].timestamp <= r.timestamp
        /\ r.type = results[j].type
        /\ results[j].type = calls[j].type => r.type = tail[j].type

C9_Witness ==
    /\ Len(replayedSteps) >= 1
    /\ results[1].replayOf # Absent
    /\ results[1].replayOf # calls[1].stepIndex
    /\ results[1].timestamp \notin ClockReadings

\* ------------------------------------------------------------------ C10
\* C10: when the executor rejected for the tail step with stepIndex k, the
\* call ends with an execution error that carries k.
C10_RejectionPropagated ==
    (Settled /\ rejectedAt # Absent) =>
        thrown = [message |-> "execution failed", step |-> rejectedAt]

\* ------------------------------------------------------------------ C11
\* the payload contents the steps of a session show
PayloadsOf(steps) == [i \in 1 .. Len(steps) |-> heap[steps[i].data]]

\* C11: after branch has returned, a write to a payload field of a step of
\* the result leaves the payloads of the original's steps as they were, and
\* a write to a payload field of a step of the original leaves the payloads
\* of the result's steps as they were.
C11_NoSharedPayload ==
    [][/\ MutateResultPayload =>
             PayloadsOf(originalSession.steps)' = PayloadsOf(originalSession.steps)
       /\ MutateOriginalPayload =>
             PayloadsOf(returned.steps)' = PayloadsOf(returned.steps)]_vars

\* ------------------------------------------------------------------ C12
\* every session createReplaySession has returned so far, oldest first
ProducedSessions ==
    IF pc = "returned" THEN Append(produced, returned) ELSE produced

\* C12: any two sessions produced by branch have different sessionIds, and
\* each differs from the sessionId of the session it was branched from, also
\* when two calls on the same original complete at the same clock reading.
C12_SessionIdsDistinct ==
    /\ \A i, j \in 1 .. Len(ProducedSessions) :
          i # j => ProducedSessions[i].sessionId # ProducedSessions[j].sessionId
    /\ \A i \in 1 .. Len(ProducedSessions) :
          ProducedSessions[i].sessionId # originalSession.sessionId

\* ------------------------------------------------------------------ C13
\* C13: branch given a session whose steps field is not an array ends in an
\* error (the TypeError of reading the field as a list, not the error an
\* empty list would give), returns no session and never calls the executor;
\* compare given such a session as either argument ends in that error and
\* returns no comparison.
C13_MalformedStepsRejected ==
    /\ (stepsKind["original"] # "array" /\ pc # "idle") =>
          /\ pc = "threw"
          /\ thrown = TypeError
          /\ returned = NoSession
          /\ calls = <<>>
    /\ ((\E a \in Arguments : stepsKind[a] # "array")
        /\ comparison # NoComparison) =>
          comparison = [kind |-> "threw", error |-> TypeError]

\* both operations have been called on a session without a step list
C13_Witness ==
    /\ stepsKind["original"] # "array"
    /\ pc = "threw"
    /\ comparison # NoComparison

\* ------------------------------------------------------------ C14 .. C17
Compared == comparison # NoComparison /\ comparison # [kind |-> "threw", error |-> TypeError]
IndicesOf(session) ==
    {session.steps[i].stepIndex : i \in 1 .. Len(session.steps)}
ComparedAt(k) == comparison.stepComparisons[k]
Positions == 1 .. Len(comparison.stepComparisons)
WithStatus(status) == {k \in Positions : ComparedAt(k).status = status}

\* C14: compare(a, b) returns exactly one StepComparison for every stepIndex
\* that occurs in a or in b, none for any other index, and the
\* StepComparisons are in strictly ascending stepIndex order.
C14_OneComparisonPerIndexAscending ==
    Compared =>
        /\ {ComparedAt(k).stepIndex : k \in Positions} =
               IndicesOf(originalSession) \cup IndicesOf(replaySession)
        /\ \A k \in Positions :
               k + 1 \in Positions =>
                   ComparedAt(k).stepIndex < ComparedAt(k + 1).stepIndex

\* three indices compared, from an original that does not store its steps in
\* ascending order
C14_Witness ==
    /\ Compared
    /\ Len(comparison.stepComparisons) = 3
    /\ Len(originalSession.steps) = 2
    /\ originalSession.steps[1].stepIndex > originalSession.steps[2].stepIndex

\* the steps of both sessions have the same type and payloads that agree in
\* every field
SameTypeAndPayload(originalStep, replayStep) ==
    /\ originalStep.type = replayStep.type
    /\ heap[originalStep.data] = heap[replayStep.data]

\* C15: for a stepIndex present in both sessions the pair is identical if
\* and only if the two steps have the same type and every payload field is
\* equal, whichever of the four variants they are; in every other case the
\* pair is modified with a non-empty difference list.
C15_IdenticalIffTypeAndPayloadEqual ==
    Compared =>
        \A k \in Positions :
            (ComparedAt(k).originalStep # NoStep
             /\ ComparedAt(k).replayStep # NoStep) =>
                IF SameTypeAndPayload(ComparedAt(k).originalStep,
                                      ComparedAt(k).replayStep)
                THEN ComparedAt(k).status = "identical"
                ELSE /\ ComparedAt(k).status = "modified"
                     /\ ComparedAt(k).differences # <<>>

\* C16: a stepIndex present only in a is classified removed, with no replay
\* step; a stepIndex present only in b is classified added, with no original
\* step; steps 1,2,3 against 1,2,4 give identical, identical, removed, added.
C16_OneSidedRemovedOrAdded ==
    Compared =>
        /\ \A i \in IndicesOf(originalSession) \ IndicesOf(replaySession) :
               \E k \in Positions :
                   /\ ComparedAt(k).stepIndex = i
                   /\ ComparedAt(k).status = "removed"
                   /\ ComparedAt(k).originalStep \in Range(originalSession.steps)
                   /\ ComparedAt(k).replayStep = NoStep
        /\ \A i \in IndicesOf(replaySession) \ IndicesOf(originalSession) :
               \E k \in Positions :
                   /\ ComparedAt(k).stepIndex = i
                   /\ ComparedAt(k).status = "added"
                   /\ ComparedAt(k).replayStep \in Range(replaySession.steps)
                   /\ ComparedAt(k).originalStep = NoStep
        /\ (/\ originalSession.steps = ThreeStepsOriginal
            /\ replaySession.steps = ThreeStepsReplay) =>
               [k \in Positions |-> ComparedAt(k).status] =
                   <<"identical", "identical", "removed", "added">>

\* steps 1,2,3 have been compared against steps 1,2,4
C16_Witness ==
    /\ Compared
    /\ originalSession.steps = ThreeStepsOriginal
    /\ replaySession.steps = ThreeStepsReplay
    /\ WithStatus("removed") # {}
    /\ WithStatus("added") # {}

\* C17: the summary's identical, modified, added and removed counts equal
\* the number of StepComparisons with that status, their sum equals the
\* number of StepComparisons, and totalStepsOriginal and totalStepsReplay
\* equal the lengths of a.steps and b.steps.
C17_SummaryCountsStatuses ==
    Compared =>
        /\ comparison.summary.identicalSteps = Cardinality(WithStatus("identical"))
        /\ comparison.summary.modifiedSteps = Cardinality(WithStatus("modified"))
        /\ comparison.summary.addedSteps = Cardinality(WithStatus("added"))
        /\ comparison.summary.removedSteps = Cardinality(WithStatus("removed"))
        /\ comparison.summary.identicalSteps + comparison.summary.modifiedSteps
           + comparison.summary.addedSteps + comparison.summary.removedSteps
              = Len(comparison.stepComparisons)
        /\ comparison.summary.totalStepsOriginal = Len(originalSession.steps)
        /\ comparison.summary.totalStepsReplay = Len(replaySession.steps)

\* a comparison with two statuses, of sessions whose lengths differ from
\* each other and from the number of indices compared
C17_Witness ==
    /\ Compared
    /\ WithStatus("modified") # {}
    /\ WithStatus("removed") # {}
    /\ Len(originalSession.steps) = 2
    /\ Len(replaySession.steps) = 1
    /\ Len(comparison.stepComparisons) = 2

\* ------------------------------------------------------------ C18 .. C20
\* every reordering of a step list
Reorderings(steps) ==
    {[i \in 1 .. Len(steps) |-> steps[f[i]]] :
        f \in {g \in [1 .. Len(steps) -> 1 .. Len(steps)] :
                  \A i, j \in 1 .. Len(steps) : g[i] = g[j] => i = j}}

\* what a comparison reports: (stepIndex, status, differences) per entry,
\* and the summary
Outline(c) ==
    [entries |-> [k \in 1 .. Len(c.stepComparisons) |->
                     <<c.stepComparisons[k].stepIndex,
                       c.stepComparisons[k].status,
                       c.stepComparisons[k].differences>>],
     summary |-> c.summary]

\* C18: compare does not depend on the order of the steps arrays: for any
\* permutations of a.steps and of b.steps it returns the same sequence of
\* (stepIndex, status, differences) and the same summary.
C18_OrderIndependent ==
    Compared =>
        \A a \in Reorderings(originalSession.steps),
           b \in Reorderings(replaySession.steps) :
            Outline(compareSessions([originalSession EXCEPT !.steps = a],
                                    [replaySession EXCEPT !.steps = b]))
                = Outline(comparison)

\* C19: for every session S, compare(S, S) yields modifiedSteps = 0,
\* addedSteps = 0, removedSteps = 0 and identicalSteps = len(S.steps).
C19_SelfComparisonAllIdentical ==
    (Compared /\ replaySession = originalSession) =>
        /\ comparison.summary.modifiedSteps = 0
        /\ comparison.summary.addedSteps = 0
        /\ comparison.summary.removedSteps = 0
        /\ comparison.summary.identicalSteps = Len(originalSession.steps)

\* the indices a comparison classifies with the given status
IndicesWithStatus(c, status) ==
    {c.stepComparisons[k].stepIndex :
        k \in {n \in 1 .. Len(c.stepComparisons) :
                  c.stepComparisons[n].status = status}}

\* compare(B, A) for the A and B that were compared
Swapped == compareSessions(replaySession, originalSession)

\* C20: compare(B, A) has the same set of indices as compare(A, B); an index
\* is added in one exactly when it is removed in the other, and the sets of
\* indices classified identical and modified are the same in both.
C20_SwapExchangesAddedAndRemoved ==
    Compared =>
        LET swapped == Swapped
        IN /\ {swapped.stepComparisons[k].stepIndex :
                   k \in 1 .. Len(swapped.stepComparisons)}
                 = {ComparedAt(k).stepIndex : k \in Positions}
           /\ IndicesWithStatus(swapped, "added")
                 = IndicesWithStatus(comparison, "removed")
           /\ IndicesWithStatus(swapped, "removed")
                 = IndicesWithStatus(comparison, "added")
           /\ IndicesWithStatus(swapped, "identical")
                 = IndicesWithStatus(comparison, "identical")
           /\ IndicesWithStatus(swapped, "modified")
                 = IndicesWithStatus(comparison, "modified")

\* a comparison with an added, a removed and a modified index
C20_Witness ==
    /\ Compared
    /\ WithStatus("added") # {}
    /\ WithStatus("removed") # {}
    /\ WithStatus("modified") # {}

\* ------------------------------------------------------------ C21 .. C22
CommandFields == {"command", "stdout", "stderr", "exitCode"}

\* both steps of the entry were found and have the given types
BothOfTypes(k, originalType, replayType) ==
    /\ ComparedAt(k).originalStep # NoStep
    /\ ComparedAt(k).replayStep # NoStep
    /\ ComparedAt(k).originalStep.type = originalType
    /\ ComparedAt(k).replayStep.type = replayType

\* the command fields in which the two steps of the entry differ
DifferingCommandFields(k) ==
    {f \in CommandFields :
        heap[ComparedAt(k).originalStep.data][f]
            # heap[ComparedAt(k).replayStep.data][f]}

\* C21: for two command steps at the same stepIndex the number of
\* difference descriptions equals the number of the fields command, stdout,
\* stderr, exitCode whose values differ; same command and stdout with a
\* different stderr and exit code 0 against 1 gives status modified with
\* exactly the two descriptions for stderr and exit code.
C21_OneDescriptionPerCommandField ==
    Compared =>
        \A k \in Positions :
            BothOfTypes(k, "command", "command") =>
                /\ Len(ComparedAt(k).differences)
                      = Cardinality(DifferingCommandFields(k))
                /\ DifferingCommandFields(k) = {"stderr", "exitCode"} =>
                      /\ ComparedAt(k).status = "modified"
                      /\ ComparedAt(k).differences =
                             <<StderrChanged,
                               ExitCodeChanged(
                                   heap[ComparedAt(k).originalStep.data].exitCode,
                                   heap[ComparedAt(k).replayStep.data].exitCode)>>

\* a command step with exit code 0 compared with one with exit code 1, the
\* same command and stdout and another stderr
C21_Witness ==
    /\ Compared
    /\ \E k \in Positions :
          /\ BothOfTypes(k, "command", "command")
          /\ DifferingCommandFields(k) = {"stderr", "exitCode"}
          /\ heap[ComparedAt(k).originalStep.data].exitCode = 0
          /\ heap[ComparedAt(k).replayStep.data].exitCode = 1

\* C22: two steps at the same stepIndex whose types differ are classified
\* modified with exactly one difference description, the type change,
\* whatever their payloads are, and the comparison is returned, not thrown.
C22_TypeMismatchOneDescription ==
    comparison # NoComparison =>
        /\ Compared
        /\ \A k \in Positions :
               (/\ ComparedAt(k).originalStep # NoStep
                /\ ComparedAt(k).replayStep # NoStep
                /\ ComparedAt(k).originalStep.type
                      # ComparedAt(k).replayStep.type) =>
                   /\ ComparedAt(k).status = "modified"
                   /\ ComparedAt(k).differences =
                          <<<<"Type changed from",
                              ComparedAt(k).originalStep.type, "to",
                              ComparedAt(k).replayStep.type>>>>

\* a command step has been compared with a file_edit step
C22_Witness ==
    /\ Compared
    /\ \E k \in Positions : BothOfTypes(k, "command", "file_edit")

\* ------------------------------------------------------------ C23, C25
\* the rows of a pane that stand for a line (the others only pad the pane)
LineRows(rows) ==
    LET IsLine(row) == row.lineNumber # 0
    IN SelectSeq(rows, IsLine)

RowsOfType(rows, type) ==
    LET HasType(row) == row.type = type
    IN SelectSeq(LineRows(rows), HasType)

\* the text whose lines are the contents of the rows
RECURSIVE TextOfRows(_)
TextOfRows(rows) ==
    IF rows = <<>> THEN <<>>
    ELSE Head(rows).content \o <<NL>> \o TextOfRows(Tail(rows))

\* the values of the changes that are not of the given kind, joined
RECURSIVE TextWithout(_, _)
TextWithout(script, kind) ==
    IF script = <<>> THEN <<>>
    ELSE (IF Head(script).kind = kind THEN <<>> ELSE Head(script).value)
         \o TextWithout(Tail(script), kind)

\* a text with its last line ended by a newline
Terminated(text) ==
    IF text = <<>> \/ text[Len(text)] = NL THEN text ELSE Append(text, NL)

\* C23: the unchanged and removed lines, in order, reconstruct oldText and
\* the unchanged and added lines, in order, reconstruct newText, empty texts
\* included; the diff of X with X has only unchanged lines and the diff of
\* the empty text with Y has only added lines.
C23_DiffReconstructsBothTexts ==
    diffStage = "rendered" =>
        /\ TextWithout(changes, "added") = diffProps.oldValue
        /\ TextWithout(changes, "removed") = diffProps.newValue
        /\ TextOfRows(LineRows(diffLines.leftLines))
              = Terminated(diffProps.oldValue)
        /\ TextOfRows(LineRows(diffLines.rightLines))
              = Terminated(diffProps.newValue)
        /\ RowsOfType(diffLines.leftLines, "added") = <<>>
        /\ RowsOfType(diffLines.rightLines, "removed") = <<>>
        /\ TextOfRows(RowsOfType(diffLines.leftLines, "unchanged"))
              = TextOfRows(RowsOfType(diffLines.rightLines, "unchanged"))
        /\ diffProps.oldValue = diffProps.newValue =>
              /\ diffLines.leftLines = diffLines.rightLines
              /\ RowsOfType(diffLines.leftLines, "unchanged")
                    = diffLines.leftLines
        /\ diffProps.oldValue = <<>> =>
              /\ RowsOfType(diffLines.rightLines, "added")
                    = diffLines.rightLines
              /\ LineRows(diffLines.leftLines) = <<>>

\* a diff with an unchanged, a removed and an added line, of an old text
\* without a final newline
C23_Witness ==
    /\ diffStage = "rendered"
    /\ diffProps.oldValue # <<>>
    /\ diffProps.oldValue[Len(diffProps.oldValue)] # NL
    /\ RowsOfType(diffLines.leftLines, "unchanged") # <<>>
    /\ RowsOfType(diffLines.leftLines, "removed") # <<>>
    /\ RowsOfType(diffLines.rightLines, "added") # <<>>

\* C25: the additions and deletions shown equal the number of added lines
\* (rows of the right pane) and of removed lines (rows of the left pane) of
\* the diff, also for texts whose last line has no final newline.
C25_StatsCountAddedAndRemovedLines ==
    diffStage = "rendered" =>
        /\ diffStats.additions = Len(RowsOfType(diffLines.rightLines, "added"))
        /\ diffStats.deletions = Len(RowsOfType(diffLines.leftLines, "removed"))

\* ------------------------------------------------------------------ C24
\* the files of the directory that no other file was modified after
MostRecentFiles ==
    {f \in FilesIn(sessionsDir) :
        \A g \in FilesIn(sessionsDir) :
            sessionsDir.modified[g] <= sessionsDir.modified[f]}

\* C24: GET /api/session/latest is answered by the latest-session handler,
\* with the id, filename and modification time of the most recently
\* modified session file, or sessionId null when there is none; it is never
\* treated as a lookup of a session whose id is 'latest'.
C24_LatestAnsweredByLatestHandler ==
    (response # NoResponse /\ request = <<"api", "session", "latest">>) =>
        /\ response.handler = "latest"
        /\ response.status = 200
        /\ IF sessionsDir.exists /\ FilesIn(sessionsDir) # {}
           THEN /\ response.body.filename \in MostRecentFiles
                /\ response.body.sessionId
                      = SessionFileIds[response.body.filename]
                /\ response.body.modified
                      = sessionsDir.modified[response.body.filename]
           ELSE response.body = [sessionId |-> "null"]

\* ------------------------------------------------------------------ C26
\* C26: for an original with unique stepIndex values, a valid cut and an
\* executor that returns, for a tail step k, a step with the same stepIndex
\* and type and a different payload field, the comparison of the original
\* with the branch result classifies index k as modified and has the
\* replayed step as the replay step of that entry.
C26_ReplayedTailStepIsModified ==
    (Compared /\ pc = "returned" /\ replaySession = returned) =>
        \A r \in 1 .. Len(replayedSteps) :
            \E k \in Positions :
                /\ ComparedAt(k).stepIndex = replayedSteps[r].stepIndex
                /\ ComparedAt(k).status = "modified"
                /\ ComparedAt(k).replayStep = replayedSteps[r]

\* C27: mockExecuteStep honours the executor contract for every well-typed
\* step, a prompt step carrying only data.prompt included: no call is
\* rejected, and every call resolves to a step of the same type, stepIndex
\* and group
C27_MockExecutorHonoursContract ==
    /\ rejectedAt = Absent
    /\ settled.kind # "rejected"
    /\ \A i \in 1 .. Len(results) :
          /\ results[i].type = calls[i].type
          /\ results[i].stepIndex = calls[i].stepIndex
          /\ results[i].group = calls[i].group

\* ------------------------------------------------------------ the App
\* C28: a poll response replaces currentSession only with data of the
\* session displayed at that moment: when the response to a poll sets
\* currentSession, the workflow view shows the session the poll asked for
C28_PollUpdatesOnlyDisplayedSession ==
    [][(polls' # polls /\ polls' \subseteq polls
            /\ currentSession' # currentSession) =>
          \A poll \in polls \ polls' :
              /\ view = "workflow"
              /\ currentSession.sessionId = poll.sessionId]_vars

\* C29: choosing compare for a replay session that handleReplayFromHere
\* created (handleCompareSession(replay.replayOf, replay.sessionId)) sets
\* the view to 'compare' with compareData holding the original and the
\* replay, however the original session was loaded
C29_CompareShowsOriginalAndReplay ==
    [][compared' # compared =>
          /\ view' = "compare"
          /\ compareData' # NoCompareData
          /\ compareData'.originalSession.sessionId =
                 compared'.originalSessionId
          /\ compareData'.replaySession.sessionId = compared'.replaySessionId
          /\ IsReplay(compareData'.replaySession)]_vars

\* ------------------------------------------------------------ settling
\* C30: when every executor call settles, every createReplaySession call
\* that awaits the executor goes on to return a session, and the executor
\* calls made are, in order, at most one per tail step
C30_BranchCallSettles ==
    /\ [](/\ Len(calls) <= Len(stepsToReplayInSameGroup)
          /\ calls = SubSeq(stepsToReplayInSameGroup, 1, Len(calls)))
    /\ (pc = "awaiting") ~> (pc = "returned")

\* a call that awaited the executor for two tail steps has returned
C30_Witness ==
    /\ pc = "returned"
    /\ Len(stepsToReplayInSameGroup) = 2
    /\ Len(calls) = 2

====
